---- MODULE Spec2Model ----
(***************************************************************************)
(* The survey application of app.py as a state machine.                    *)
(*                                                                         *)
(* A browser session owns a st.session_state mapping and the values of the *)
(* widgets of the page it shows.  Every interaction (a widget change or a  *)
(* button press) re-runs the whole script top to bottom: init_state,       *)
(* scroll_to_top, then the block of the current step, which assigns the    *)
(* value of each of its widgets to session state.  st.rerun() ends the run *)
(* and starts another one at once.  A widget that a complete run does not  *)
(* render loses its value, so it shows its default when it is rendered     *)
(* again.  The Submit handler reads the remote CSV, appends one row,       *)
(* writes responses_tmp.csv and uploads that file.                         *)
(*                                                                         *)
(* Values: None is the string "None"; numbers that answer a question are   *)
(* written as their decimal strings ("18", "4") so that None, numbers and  *)
(* text are comparable; participant ids and timestamps are integers.       *)
(***************************************************************************)
EXTENDS Integers, Sequences, FiniteSets, TLC

VARIABLES
    session_state,  \* per session: st.session_state, key -> value
    widgets,        \* per session: value of every widget the last run rendered
    page,           \* per session: buttons and alert the last run rendered
    pc,             \* per session: position inside the Submit handler
    record,         \* per session: the handler's local `record`
    existing_df,    \* per session: the handler's local `existing_df`
    updated_df,     \* per session: the handler's local `updated_df`
    read_raised,    \* per session: whether hf_hub_download/read_csv raised
    write_raised,   \* per session: whether hf_api.upload_file raised
    remote,         \* rows of HF_DATASET_PATH in the dataset repository
    tmp_file,       \* rows of responses_tmp.csv in the working directory
    clock,          \* source of datetime.utcnow() and of fresh uuids
    entered,        \* history: per session, widget -> value last entered
    edits,          \* history: per session, number of answers entered
    submits,        \* history: per session, number of Submit presses
    succeeded,      \* history: per session, number of submits reporting success
    went_back,      \* history: per session, whether Back was ever pressed
    env,            \* which of HF_TOKEN and HF_DATASET_REPO the environment sets
    speech          \* a call of create_speech_html: its text, tone and result

vars == <<session_state, widgets, page, pc, record, existing_df, updated_df,
          read_raised, write_raised, remote, tmp_file, clock, entered, edits,
          submits, succeeded, went_back, env, speech>>

----------------------------------------------------------------------------
(* Bounds of the model *)

\* answers one participant enters
MaxEdits == 2
\* Submit presses of one participant
MaxSubmits == 2
\* rows other participants stored before the model starts
MaxInitRows == 1
\* Submit presses of one participant when two sessions run side by side
MaxRaceSubmits == 1
\* pieces a script handed to preprocess_text_for_tone is put together from
MaxWords == 2
\* answers one participant enters on the gender question and its text box
MaxGenderEdits == 3

Sessions == {1, 2}

----------------------------------------------------------------------------
(* Constants of the program *)

None == "None"

steps == <<"consent", "demographics", "baseline", "session_emp", "session_neu",
           "open", "review">>

StepSet == {steps[i] : i \in DOMAIN steps}

index(step) == CHOOSE i \in DOMAIN steps : steps[i] = step

GenderOther == "Non-binary/Other (specify)"
gender_options == <<"Female", "Male", GenderOther, "Prefer not to say">>
education_options == <<"High school or less", "Some college/Associate's",
                       "Bachelor's degree", "Postgraduate degree">>
yes_no == <<"Yes", "No">>
comfort_options == <<"Not at all", "Slightly", "Moderately", "Very", "Extremely">>
gad_scale == <<"1", "2", "3", "4">>
impact_options == <<"Not difficult", "Somewhat", "Very", "Extremely">>
panas_scale == <<"1", "2", "3", "4", "5">>
five_scale == <<"1 = Strongly Disagree", "2", "3", "4", "5 = Strongly Agree">>
anxiety_scale == <<"1", "2", "3", "4", "5">>
MinAge == "18"

open_keys == <<"open_emp", "open_neu", "open_compare", "open_pref", "open_empathy",
               "open_trust", "open_triggers", "open_improve", "open_more_1",
               "open_more_2">>

GadItems == 1..7
PanasItems == 1..10
EmpItems == 1..8
NeuItems == 1..8
PostItems == 1..7

ConsentBox == "I agree to participate."
SpecifyBox == "Please specify:"
Q(i) == "Q" \o ToString(i)
Qsub(i, j) == "Q" \o ToString(i) \o "." \o ToString(j)

----------------------------------------------------------------------------
(* Process configuration.  HF_TOKEN and HF_DATASET_REPO come from the       *)
(* environment; only whether each is set matters.                           *)

Configured == [HF_TOKEN |-> TRUE, HF_DATASET_REPO |-> TRUE]

Environments == [HF_TOKEN : BOOLEAN, HF_DATASET_REPO : BOOLEAN]

\* if not HF_TOKEN: st.error(...); if not HF_DATASET_REPO: st.error(...)
\* Neither branch stops the script.
config_errors(e) ==
    {"Missing HF_TOKEN in .env" : x \in {y \in {1} : ~e.HF_TOKEN}}
        \cup {"Missing HF_DATASET_REPO in .env" : x \in {y \in {1} : ~e.HF_DATASET_REPO}}

\* How the lines between the checks and init_state() end.  With both values
\* set they return.  With one missing, st.error has already drawn an element
\* when st.set_page_config is called, and HfFolder.save_token is handed
\* None in place of a token; whether these calls return or raise is decided
\* by the installed streamlit and huggingface_hub, so both outcomes are
\* kept.  When one raises the run ends there, before init_state().
startup_outcomes(e) ==
    IF config_errors(e) = {} THEN {"returns"} ELSE {"returns", "raises"}

\* hf_hub_download and hf_api.upload_file raise when repo_id is None.
repo_reachable(e) == e.HF_DATASET_REPO

----------------------------------------------------------------------------
(* st.session_state *)

Get(ss, k, dflt) == IF k \in DOMAIN ss THEN ss[k] ELSE dflt

Put(ss, k, v) == [x \in DOMAIN ss \cup {k} |-> IF x = k THEN v ELSE ss[x]]

NoState == [k \in {} |-> None]

new_uuid(s, now) == 100 * s + now

defaults(uuid, now) ==
    [k \in {"consented", "step", "participant_id", "start_ts", "age", "gender",
            "gender_other", "education", "voice_exp", "used_assistants",
            "tech_comfort", "gad", "gad_impact", "panas", "single_mood", "emp",
            "emp_state_anxiety", "emp_post", "neu", "neu_state_anxiety",
            "neu_post"} \cup {open_keys[i] : i \in DOMAIN open_keys} |->
        CASE k = "consented" -> FALSE
          [] k = "step" -> "consent"
          [] k = "participant_id" -> uuid
          [] k = "start_ts" -> now
          [] k = "gender_other" -> ""
          [] k = "gad" -> [i \in GadItems |-> None]
          [] k = "panas" -> [i \in PanasItems |-> None]
          [] k = "emp" -> [i \in EmpItems |-> None]
          [] k = "emp_post" -> [i \in PostItems |-> None]
          [] k = "neu" -> [i \in NeuItems |-> None]
          [] k = "neu_post" -> [i \in PostItems |-> None]
          [] k \in {open_keys[i] : i \in DOMAIN open_keys} -> ""
          [] OTHER -> None]

\* Variant: the identifier and the start time are assigned on every run.
init_state_reassigns(ss, uuid, now) ==
    LET d == defaults(uuid, now)
    IN  [k \in DOMAIN d \cup DOMAIN ss |->
            IF k \in DOMAIN ss /\ k \notin {"participant_id", "start_ts"}
            THEN ss[k] ELSE d[k]]

init_state(ss, uuid, now) ==
    LET d == defaults(uuid, now)
    IN  [k \in DOMAIN d \cup DOMAIN ss |-> IF k \in DOMAIN ss THEN ss[k] ELSE d[k]]

scroll_to_top(ss) ==
    IF Get(ss, "step_changed", FALSE) THEN Put(ss, "step_changed", FALSE) ELSE ss

----------------------------------------------------------------------------
(* Widgets.  A widget returns the value the browser holds for it, or its    *)
(* default when the last complete run did not render it: st.radio and       *)
(* st.selectbox default to their first option, st.number_input to           *)
(* min_value, st.text_input and st.text_area to "", st.checkbox to False.   *)

NoWidgets == [w \in {} |-> None]

WidgetValue(ws, id, dflt) == IF id \in DOMAIN ws THEN ws[id] ELSE dflt

radio(ws, id, options) == WidgetValue(ws, id, options[1])

selectbox(ws, id, options) == WidgetValue(ws, id, options[1])

number_input(ws, id, min_value) == WidgetValue(ws, id, min_value)

text_input(ws, id) == WidgetValue(ws, id, "")

text_area(ws, id) == WidgetValue(ws, id, "")

checkbox(ws, id) == WidgetValue(ws, id, FALSE)

NoClick == "none"

\* What one run of a step block yields: the session state it leaves, the
\* widgets and buttons it rendered, the alert it showed, whether it called
\* st.rerun(), and whether it entered the Submit handler.
Ran(ss, ws, buttons, alert, rerun, submit) ==
    [ss |-> ss, ws |-> ws, buttons |-> buttons, alert |-> alert,
     rerun |-> rerun, submit |-> submit]

\* Variant: Back restarts the survey at its first step.
navigation_buttons_restart(ss, ws, prev_step, next_step, clicked) ==
    IF prev_step # None /\ clicked = "back_" \o prev_step
    THEN Ran(Put(Put(ss, "step", steps[1]), "step_changed", TRUE),
             ws, {}, "none", TRUE, FALSE)
    ELSE IF next_step # None /\ clicked = "next_" \o next_step
    THEN Ran(Put(Put(ss, "step", next_step), "step_changed", TRUE),
             ws, {}, "none", TRUE, FALSE)
    ELSE Ran(ss, ws,
             {"back_" \o prev_step : x \in {y \in {1} : prev_step # None}}
                 \cup {"next_" \o next_step : x \in {y \in {1} : next_step # None}},
             "none", FALSE, FALSE)

navigation_buttons(ss, ws, prev_step, next_step, clicked) ==
    IF prev_step # None /\ clicked = "back_" \o prev_step
    THEN Ran(Put(Put(ss, "step", prev_step), "step_changed", TRUE),
             ws, {}, "none", TRUE, FALSE)
    ELSE IF next_step # None /\ clicked = "next_" \o next_step
    THEN Ran(Put(Put(ss, "step", next_step), "step_changed", TRUE),
             ws, {}, "none", TRUE, FALSE)
    ELSE Ran(ss, ws,
             {"back_" \o prev_step : x \in {y \in {1} : prev_step # None}}
                 \cup {"next_" \o next_step : x \in {y \in {1} : next_step # None}},
             "none", FALSE, FALSE)

\* Variant: Continue moves on without recording the consent.
consent_step_forgets(ss, ws, clicked) ==
    LET consent == checkbox(ws, ConsentBox)
        shown == [w \in {ConsentBox} |-> consent]
    IN  IF clicked = "Continue"
        THEN IF consent
             THEN Ran(Put(ss, "step", "demographics"), shown, {}, "none", TRUE, FALSE)
             ELSE Ran(ss, shown, {"Continue"}, "warning", FALSE, FALSE)
        ELSE Ran(ss, shown, {"Continue"}, "none", FALSE, FALSE)

\* Variant: Continue does not look at the checkbox.
consent_step_ungated(ss, ws, clicked) ==
    LET consent == checkbox(ws, ConsentBox)
        shown == [w \in {ConsentBox} |-> consent]
    IN  IF clicked = "Continue"
        THEN Ran(Put(Put(ss, "consented", TRUE), "step", "demographics"),
                 shown, {}, "none", TRUE, FALSE)
        ELSE Ran(ss, shown, {"Continue"}, "none", FALSE, FALSE)

consent_step(ss, ws, clicked) ==
    LET consent == checkbox(ws, ConsentBox)
        shown == [w \in {ConsentBox} |-> consent]
    IN  IF clicked = "Continue"
        THEN IF consent
             THEN Ran(Put(Put(ss, "consented", TRUE), "step", "demographics"),
                      shown, {}, "none", TRUE, FALSE)
             ELSE Ran(ss, shown, {"Continue"}, "warning", FALSE, FALSE)
        ELSE Ran(ss, shown, {"Continue"}, "none", FALSE, FALSE)

\* Variant: choosing a gender other than Other empties gender_other.
demographics_step_clears(ss, ws, clicked) ==
    LET gender_choice == selectbox(ws, Q(2), gender_options)
        s1 == [ss EXCEPT !["age"] = number_input(ws, Q(1), MinAge),
                         !["gender"] = gender_choice]
        s2 == IF gender_choice = GenderOther
              THEN [s1 EXCEPT !["gender_other"] = text_input(ws, SpecifyBox)]
              ELSE [s1 EXCEPT !["gender_other"] = ""]
        s3 == [s2 EXCEPT !["education"] = selectbox(ws, Q(3), education_options),
                         !["voice_exp"] = radio(ws, Q(4), yes_no),
                         !["used_assistants"] = radio(ws, Q(5), yes_no),
                         !["tech_comfort"] = radio(ws, Q(6), comfort_options)]
        shown == [w \in {Q(i) : i \in 1..6}
                        \cup (IF gender_choice = GenderOther THEN {SpecifyBox} ELSE {}) |->
                    CASE w = Q(1) -> s3["age"]
                      [] w = Q(2) -> s3["gender"]
                      [] w = SpecifyBox -> s3["gender_other"]
                      [] w = Q(3) -> s3["education"]
                      [] w = Q(4) -> s3["voice_exp"]
                      [] w = Q(5) -> s3["used_assistants"]
                      [] w = Q(6) -> s3["tech_comfort"]]
    IN  navigation_buttons(s3, shown, "consent", "baseline", clicked)

demographics_step(ss, ws, clicked) ==
    LET gender_choice == selectbox(ws, Q(2), gender_options)
        s1 == [ss EXCEPT !["age"] = number_input(ws, Q(1), MinAge),
                         !["gender"] = gender_choice]
        s2 == IF gender_choice = GenderOther
              THEN [s1 EXCEPT !["gender_other"] = text_input(ws, SpecifyBox)]
              ELSE s1
        s3 == [s2 EXCEPT !["education"] = selectbox(ws, Q(3), education_options),
                         !["voice_exp"] = radio(ws, Q(4), yes_no),
                         !["used_assistants"] = radio(ws, Q(5), yes_no),
                         !["tech_comfort"] = radio(ws, Q(6), comfort_options)]
        shown == [w \in {Q(i) : i \in 1..6}
                        \cup (IF gender_choice = GenderOther THEN {SpecifyBox} ELSE {}) |->
                    CASE w = Q(1) -> s3["age"]
                      [] w = Q(2) -> s3["gender"]
                      [] w = SpecifyBox -> s3["gender_other"]
                      [] w = Q(3) -> s3["education"]
                      [] w = Q(4) -> s3["voice_exp"]
                      [] w = Q(5) -> s3["used_assistants"]
                      [] w = Q(6) -> s3["tech_comfort"]]
    IN  navigation_buttons(s3, shown, "consent", "baseline", clicked)

baseline_step(ss, ws, clicked) ==
    LET s1 == [ss EXCEPT
                  !["gad"] = [i \in GadItems |-> radio(ws, Qsub(7, i), gad_scale)],
                  !["gad_impact"] = radio(ws, Q(8), impact_options),
                  !["panas"] = [i \in PanasItems |-> radio(ws, Qsub(9, i), panas_scale)],
                  !["single_mood"] = radio(ws, Q(10), panas_scale)]
        shown == [w \in {Qsub(7, i) : i \in GadItems} \cup {Q(8)}
                        \cup {Qsub(9, i) : i \in PanasItems} \cup {Q(10)} |->
                    CASE w = Q(8) -> s1["gad_impact"]
                      [] w = Q(10) -> s1["single_mood"]
                      [] w \in {Qsub(7, i) : i \in GadItems} ->
                             s1["gad"][CHOOSE i \in GadItems : w = Qsub(7, i)]
                      [] OTHER ->
                             s1["panas"][CHOOSE i \in PanasItems : w = Qsub(9, i)]]
    IN  navigation_buttons(s1, shown, "demographics", "session_emp", clicked)

\* Variant: the empathetic session also fills its post-session group with
\* the anxiety answer.
session_emp_step_writes_post(ss, ws, clicked) ==
    LET s1 == [ss EXCEPT
                  !["emp"] = [i \in EmpItems |-> radio(ws, Q(i + 10), five_scale)],
                  !["emp_state_anxiety"] = radio(ws, "emp_anxiety", anxiety_scale),
                  !["emp_post"] = [i \in PostItems |->
                                      radio(ws, "emp_anxiety", anxiety_scale)]]
        shown == [w \in {Q(i + 10) : i \in EmpItems} \cup {"emp_anxiety"} |->
                    IF w = "emp_anxiety" THEN s1["emp_state_anxiety"]
                    ELSE s1["emp"][CHOOSE i \in EmpItems : w = Q(i + 10)]]
    IN  navigation_buttons(s1, shown, "baseline", "session_neu", clicked)

session_emp_step(ss, ws, clicked) ==
    LET s1 == [ss EXCEPT
                  !["emp"] = [i \in EmpItems |-> radio(ws, Q(i + 10), five_scale)],
                  !["emp_state_anxiety"] = radio(ws, "emp_anxiety", anxiety_scale)]
        shown == [w \in {Q(i + 10) : i \in EmpItems} \cup {"emp_anxiety"} |->
                    IF w = "emp_anxiety" THEN s1["emp_state_anxiety"]
                    ELSE s1["emp"][CHOOSE i \in EmpItems : w = Q(i + 10)]]
    IN  navigation_buttons(s1, shown, "baseline", "session_neu", clicked)

\* Variant: the neutral session also stores its anxiety answer as the
\* empathetic session's.
session_neu_step_writes_emp(ss, ws, clicked) ==
    LET s1 == [ss EXCEPT
                  !["neu"] = [i \in NeuItems |-> radio(ws, Q(i + 19), five_scale)],
                  !["neu_state_anxiety"] = radio(ws, "neu_anxiety", anxiety_scale),
                  !["emp_state_anxiety"] = radio(ws, "neu_anxiety", anxiety_scale)]
        shown == [w \in {Q(i + 19) : i \in NeuItems} \cup {"neu_anxiety"} |->
                    IF w = "neu_anxiety" THEN s1["neu_state_anxiety"]
                    ELSE s1["neu"][CHOOSE i \in NeuItems : w = Q(i + 19)]]
    IN  navigation_buttons(s1, shown, "session_emp", "open", clicked)

session_neu_step(ss, ws, clicked) ==
    LET s1 == [ss EXCEPT
                  !["neu"] = [i \in NeuItems |-> radio(ws, Q(i + 19), five_scale)],
                  !["neu_state_anxiety"] = radio(ws, "neu_anxiety", anxiety_scale)]
        shown == [w \in {Q(i + 19) : i \in NeuItems} \cup {"neu_anxiety"} |->
                    IF w = "neu_anxiety" THEN s1["neu_state_anxiety"]
                    ELSE s1["neu"][CHOOSE i \in NeuItems : w = Q(i + 19)]]
    IN  navigation_buttons(s1, shown, "session_emp", "open", clicked)

open_step(ss, ws, clicked) ==
    LET s1 == [k \in DOMAIN ss |->
                  IF \E i \in DOMAIN open_keys : open_keys[i] = k
                  THEN text_area(ws, Q(28 + CHOOSE i \in DOMAIN open_keys : open_keys[i] = k))
                  ELSE ss[k]]
        shown == [w \in {Q(28 + i) : i \in DOMAIN open_keys} |->
                    s1[open_keys[CHOOSE i \in DOMAIN open_keys : w = Q(28 + i)]]]
    IN  navigation_buttons(s1, shown, "session_neu", "review", clicked)

\* Variant: Submit takes the participant back to the open questions.
review_step_leaves(ss, ws, clicked) ==
    IF clicked = "Submit"
    THEN Ran(Put(ss, "step", "open"), NoWidgets, {"Submit"}, "none", FALSE, TRUE)
    ELSE Ran(ss, NoWidgets, {"Submit"}, "none", FALSE, FALSE)

\* Variant: Submit sends the participant back to the first step.
review_step_restarts(ss, ws, clicked) ==
    IF clicked = "Submit"
    THEN Ran(Put(ss, "step", steps[1]), NoWidgets, {"Submit"}, "none", FALSE, TRUE)
    ELSE Ran(ss, NoWidgets, {"Submit"}, "none", FALSE, FALSE)

review_step(ss, ws, clicked) ==
    Ran(ss, NoWidgets, {"Submit"}, "none", FALSE, clicked = "Submit")

\* The session fields each step block assigns.
owned_fields(step) ==
    CASE step = "demographics" ->
             {"age", "gender", "gender_other", "education", "voice_exp",
              "used_assistants", "tech_comfort"}
      [] step = "baseline" -> {"gad", "gad_impact", "panas", "single_mood"}
      [] step = "session_emp" -> {"emp", "emp_state_anxiety"}
      [] step = "session_neu" -> {"neu", "neu_state_anxiety"}
      [] step = "open" -> {open_keys[i] : i \in DOMAIN open_keys}
      [] OTHER -> {}

\* The session fields that hold answers.
AnswerFields ==
    DOMAIN defaults(0, 0) \ {"consented", "step", "participant_id", "start_ts"}

\* One run of the script, top to bottom.
Script(ss, ws, clicked, uuid, now) ==
    LET s1 == scroll_to_top(init_state(ss, uuid, now))
        step == s1["step"]
    IN  CASE step = "consent" -> consent_step(s1, ws, clicked)
          [] step = "demographics" -> demographics_step(s1, ws, clicked)
          [] step = "baseline" -> baseline_step(s1, ws, clicked)
          [] step = "session_emp" -> session_emp_step(s1, ws, clicked)
          [] step = "session_neu" -> session_neu_step(s1, ws, clicked)
          [] step = "open" -> open_step(s1, ws, clicked)
          [] step = "review" -> review_step(s1, ws, clicked)

\* One interaction: the run it triggers and, after st.rerun(), the run
\* that follows at once, in which no button is pressed.
Interaction(ss, ws, clicked, uuid, now) ==
    LET r1 == Script(ss, ws, clicked, uuid, now)
    IN  IF r1.rerun THEN Script(r1.ss, ws, NoClick, uuid, now) ELSE r1

----------------------------------------------------------------------------
(* The Output Record and the CSV file *)

Merge(f, g) == [k \in DOMAIN f \cup DOMAIN g |-> IF k \in DOMAIN g THEN g[k] ELSE f[k]]

FlatKey(prefix, i) == prefix \o "_q" \o ToString(i)

\* Variant: an item that was not answered gets no key.
Flat_answered(prefix, items, group) ==
    [k \in {FlatKey(prefix, i) : i \in {j \in items : group[j] # None}} |->
        group[CHOOSE i \in items : k = FlatKey(prefix, i)]]

\* for i in items: record[f"{prefix}_q{i}"] = group[f"q{i}"]
Flat(prefix, items, group) ==
    [k \in {FlatKey(prefix, i) : i \in items} |->
        group[CHOOSE i \in items : k = FlatKey(prefix, i)]]

\* Variant: the two state-anxiety answers are stored under each other's key.
build_record_swapped(ss, now) ==
    LET head == [participant_id |-> ss["participant_id"],
                 start_ts_utc |-> ss["start_ts"],
                 submit_ts_utc |-> now,
                 age |-> ss["age"],
                 gender |-> ss["gender"],
                 gender_other |-> Get(ss, "gender_other", ""),
                 education |-> ss["education"],
                 voice_exp |-> ss["voice_exp"],
                 used_assistants |-> ss["used_assistants"],
                 tech_comfort |-> ss["tech_comfort"],
                 single_mood |-> ss["single_mood"]]
        r1 == Merge(head, Flat("gad", GadItems, ss["gad"]))
        r2 == Merge(r1, [gad_impact |-> ss["gad_impact"]])
        r3 == Merge(r2, Flat("panas", PanasItems, ss["panas"]))
        r4 == Merge(r3, Flat("emp", EmpItems, ss["emp"]))
        r5 == Merge(r4, [emp_state_anxiety |-> ss["neu_state_anxiety"]])
        r6 == Merge(r5, Flat("emp_post", PostItems, ss["emp_post"]))
        r7 == Merge(r6, Flat("neu", NeuItems, ss["neu"]))
        r8 == Merge(r7, [neu_state_anxiety |-> ss["emp_state_anxiety"]])
        r9 == Merge(r8, Flat("neu_post", PostItems, ss["neu_post"]))
    IN  Merge(r9, [k \in {open_keys[i] : i \in DOMAIN open_keys} |-> ss[k]])

build_record(ss, now) ==
    LET head == [participant_id |-> ss["participant_id"],
                 start_ts_utc |-> ss["start_ts"],
                 submit_ts_utc |-> now,
                 age |-> ss["age"],
                 gender |-> ss["gender"],
                 gender_other |-> Get(ss, "gender_other", ""),
                 education |-> ss["education"],
                 voice_exp |-> ss["voice_exp"],
                 used_assistants |-> ss["used_assistants"],
                 tech_comfort |-> ss["tech_comfort"],
                 single_mood |-> ss["single_mood"]]
        r1 == Merge(head, Flat("gad", GadItems, ss["gad"]))
        r2 == Merge(r1, [gad_impact |-> ss["gad_impact"]])
        r3 == Merge(r2, Flat("panas", PanasItems, ss["panas"]))
        r4 == Merge(r3, Flat("emp", EmpItems, ss["emp"]))
        r5 == Merge(r4, [emp_state_anxiety |-> ss["emp_state_anxiety"]])
        r6 == Merge(r5, Flat("emp_post", PostItems, ss["emp_post"]))
        r7 == Merge(r6, Flat("neu", NeuItems, ss["neu"]))
        r8 == Merge(r7, [neu_state_anxiety |-> ss["neu_state_anxiety"]])
        r9 == Merge(r8, Flat("neu_post", PostItems, ss["neu_post"]))
    IN  Merge(r9, [k \in {open_keys[i] : i \in DOMAIN open_keys} |-> ss[k]])

\* The flat key of the Output Record that carries the value of a widget.
FlatKeyOf(id) ==
    CASE id = Q(1) -> "age"
      [] id = Q(2) -> "gender"
      [] id = SpecifyBox -> "gender_other"
      [] id = Q(3) -> "education"
      [] id = Q(4) -> "voice_exp"
      [] id = Q(5) -> "used_assistants"
      [] id = Q(6) -> "tech_comfort"
      [] id = Q(8) -> "gad_impact"
      [] id = Q(10) -> "single_mood"
      [] id = "emp_anxiety" -> "emp_state_anxiety"
      [] id = "neu_anxiety" -> "neu_state_anxiety"
      [] \E i \in GadItems : id = Qsub(7, i) ->
             FlatKey("gad", CHOOSE i \in GadItems : id = Qsub(7, i))
      [] \E i \in PanasItems : id = Qsub(9, i) ->
             FlatKey("panas", CHOOSE i \in PanasItems : id = Qsub(9, i))
      [] \E i \in EmpItems : id = Q(i + 10) ->
             FlatKey("emp", CHOOSE i \in EmpItems : id = Q(i + 10))
      [] \E i \in NeuItems : id = Q(i + 19) ->
             FlatKey("neu", CHOOSE i \in NeuItems : id = Q(i + 19))
      [] \E i \in DOMAIN open_keys : id = Q(i + 28) ->
             open_keys[CHOOSE i \in DOMAIN open_keys : id = Q(i + 28)]

IdKeys == {"participant_id", "start_ts_utc", "submit_ts_utc"}

\* The keys of an Output Record, as the handler's statements name them.
RecordKeys ==
    IdKeys
        \cup {"age", "gender", "gender_other", "education", "voice_exp",
              "used_assistants", "tech_comfort", "single_mood", "gad_impact",
              "emp_state_anxiety", "neu_state_anxiety"}
        \cup {FlatKey("gad", i) : i \in 1..7}
        \cup {FlatKey("panas", i) : i \in 1..10}
        \cup {FlatKey("emp", i) : i \in 1..8}
        \cup {FlatKey("emp_post", i) : i \in 1..7}
        \cup {FlatKey("neu", i) : i \in 1..8}
        \cup {FlatKey("neu_post", i) : i \in 1..7}
        \cup {open_keys[i] : i \in DOMAIN open_keys}

\* Whether every subscript the handler evaluates exists, so that building
\* the record raises no KeyError.
Flattens(ss) ==
    /\ {"participant_id", "start_ts", "age", "gender", "education", "voice_exp",
         "used_assistants", "tech_comfort", "single_mood", "gad", "gad_impact",
         "panas", "emp", "emp_state_anxiety", "emp_post", "neu",
         "neu_state_anxiety", "neu_post"}
            \cup {open_keys[i] : i \in DOMAIN open_keys} \subseteq DOMAIN ss
    /\ 1..7 \subseteq DOMAIN ss["gad"]
    /\ 1..10 \subseteq DOMAIN ss["panas"]
    /\ 1..8 \subseteq DOMAIN ss["emp"]
    /\ 1..7 \subseteq DOMAIN ss["emp_post"]
    /\ 1..8 \subseteq DOMAIN ss["neu"]
    /\ 1..7 \subseteq DOMAIN ss["neu_post"]

\* DataFrame.to_csv writes a missing value (None, NaN) as an empty field,
\* which is also how it writes the empty string.
to_csv(df) ==
    [i \in DOMAIN df |->
        [k \in DOMAIN df[i] |->
            IF k \in IdKeys THEN df[i][k]
            ELSE IF df[i][k] \in {None, "NaN"} THEN "" ELSE df[i][k]]]

\* pandas.read_csv reads an empty field as NaN.
read_csv(file) ==
    [i \in DOMAIN file |->
        [k \in DOMAIN file[i] |->
            IF k \in IdKeys THEN file[i][k]
            ELSE IF file[i][k] = "" THEN "NaN" ELSE file[i][k]]]

\* pd.DataFrame(columns=["participant_id"]): a table without rows
EmptyFrame == <<>>

\* Variant: the new row takes the place of the participant's earlier rows.
concat_replaces(df, rec) ==
    SelectSeq(df, LAMBDA row : row["participant_id"] # rec["participant_id"]) \o <<rec>>

\* Variant: the new row is put first.
concat_prepends(df, rec) == <<rec>> \o df

\* Variant: the result of the concatenation is dropped.
concat_drops(df, rec) == df

\* pd.concat([existing_df, pd.DataFrame([record])], ignore_index=True)
concat(df, rec) == df \o <<rec>>

\* What the table is when hf_hub_download and read_csv return.
load_returns(file) == read_csv(file)

\* What the table is when either of them raises.
load_raises == EmptyFrame

\* Variant: the failure is not noticed and the file is used as it is.
load_existing_hf_csv_unguarded(file, raised) == load_returns(file)

load_existing_hf_csv(file, raised) == IF raised THEN load_raises ELSE load_returns(file)

\* hf_api.upload_file: the file at path_in_repo becomes the local file.
upload_file(file, local) == local

----------------------------------------------------------------------------
(* The spoken script.  A text is a sequence of one-character strings.       *)

Im == <<"I", "'", "m">>

I_am == <<"I", " ", "a", "m">>

youre == <<"y", "o", "u", "'", "r", "e">>

you_are == <<"y", "o", "u", " ", "a", "r", "e">>

its == <<"i", "t", "'", "s">>

it_is == <<"i", "t", " ", "i", "s">>

cant == <<"c", "a", "n", "'", "t">>

cannot == <<"c", "a", "n", "n", "o", "t">>

glad == <<"g", "l", "a", "d">>

pleased == <<"p", "l", "e", "a", "s", "e", "d">>

wonderful == <<"w", "o", "n", "d", "e", "r", "f", "u", "l">>

acceptable == <<"a", "c", "c", "e", "p", "t", "a", "b", "l", "e">>

Period == <<".">>

Pause == <<".", ".", ".", " ">>

Comma == <<",">>

CommaSpace == <<",", " ">>

Youre == <<"Y", "o", "u", "'", "r", "e">>

You_are_truly ==
    <<"Y", "o", "u", " ", "a", "r", "e", " ", "t", "r", "u", "l", "y">>

Take_a_slow_breath ==
    <<"T", "a", "k", "e", " ", "a", " ", "s", "l", "o", "w", " ", "b", "r",
      "e", "a", "t", "h">>

Take_a_slow_deep_breath ==
    <<"T", "a", "k", "e", " ", "a", " ", "s", "l", "o", "w", ",", " ", "d",
      "e", "e", "p", " ", "b", "r", "e", "a", "t", "h">>

Space == <<" ">>

here == <<"h", "e", "r", "e">>

\* str.replace(old, new): every occurrence of old, found from the left and
\* without overlap, becomes new.
RECURSIVE replace_from(_, _, _, _)
replace_from(text, i, old, new) ==
    IF i > Len(text) THEN <<>>
    ELSE IF i + Len(old) - 1 <= Len(text) /\ SubSeq(text, i, i + Len(old) - 1) = old
    THEN new \o replace_from(text, i + Len(old), old, new)
    ELSE <<text[i]>> \o replace_from(text, i + 1, old, new)

\* Variant: only the first occurrence is replaced.
RECURSIVE replace_first_from(_, _, _, _)
replace_first_from(text, i, old, new) ==
    IF i > Len(text) THEN <<>>
    ELSE IF i + Len(old) - 1 <= Len(text) /\ SubSeq(text, i, i + Len(old) - 1) = old
    THEN new \o SubSeq(text, i + Len(old), Len(text))
    ELSE <<text[i]>> \o replace_first_from(text, i + 1, old, new)

\* Variant of replace.
replace_first(text, old, new) == replace_first_from(text, 1, old, new)

replace(text, old, new) == replace_from(text, 1, old, new)

preprocess_text_for_tone(text, tone) ==
    IF tone = "empathetic"
    THEN LET t1 == replace(text, Period, Pause)
             t2 == replace(t1, Comma, CommaSpace)
             t3 == replace(t2, Take_a_slow_breath, Take_a_slow_deep_breath)
         IN  replace(t3, Youre, You_are_truly)
    ELSE IF tone = "neutral"
    THEN LET t1 == replace(text, Im, I_am)
             t2 == replace(t1, youre, you_are)
             t3 == replace(t2, its, it_is)
             t4 == replace(t3, cant, cannot)
             t5 == replace(t4, glad, pleased)
         IN  replace(t5, wonderful, acceptable)
    ELSE text

\* Tones a caller may pass: the two the function knows and another one.
Tones == {"empathetic", "neutral", "cheerful"}

\* The pieces scripts are put together from in the model.
Words == {Im, youre, its, cant, glad, wonderful, Period, Comma, Youre,
          Take_a_slow_breath, Space, here}

RECURSIVE Join(_)
Join(ws) == IF ws = <<>> THEN <<>> ELSE Head(ws) \o Join(Tail(ws))

Scripts == UNION {[1..n -> Words] : n \in 0..MaxWords}

NoSpeech == [words |-> <<>>, text |-> <<>>, tone |-> "neutral",
             processed |-> <<>>, done |-> FALSE]

----------------------------------------------------------------------------
(* Rows that other participants stored earlier: each walked the survey      *)
(* without changing any widget and submitted.                               *)

Walked(ss) ==
    LET a == demographics_step(ss, NoWidgets, NoClick).ss
        b == baseline_step(a, NoWidgets, NoClick).ss
        c == session_emp_step(b, NoWidgets, NoClick).ss
        d == session_neu_step(c, NoWidgets, NoClick).ss
    IN  open_step(d, NoWidgets, NoClick).ss

OtherRow(n) == to_csv(<<build_record(Walked(init_state(NoState, 900 + n, 0)), 0)>>)[1]

InitialTables == {[i \in 1..n |-> OtherRow(i)] : n \in 0..MaxInitRows}

----------------------------------------------------------------------------
(* What the participant may enter in the model, per widget *)

Inputs(id) ==
    CASE id = Q(1) -> {"18", "25"}
      [] id = Q(2) -> {"Female", GenderOther}
      [] id = SpecifyBox -> {"", "they"}
      [] id = Qsub(7, 7) -> {"1", "3"}
      [] id = Qsub(9, 1) -> {"1", "4"}
      [] id = "emp_anxiety" -> {"1", "2"}
      [] id = "neu_anxiety" -> {"1", "4"}
      [] OTHER -> {}

----------------------------------------------------------------------------
(* State *)

Started(s) == "step" \in DOMAIN session_state[s]

\* Every browser session before its first run, and the dataset as the
\* earlier participants left it.
InitSessions ==
    /\ session_state = [s \in Sessions |-> NoState]
    /\ widgets = [s \in Sessions |-> NoWidgets]
    /\ page = [s \in Sessions |-> [buttons |-> {}, alert |-> "none"]]
    /\ pc = [s \in Sessions |-> "idle"]
    /\ record = [s \in Sessions |-> NoState]
    /\ existing_df = [s \in Sessions |-> EmptyFrame]
    /\ updated_df = [s \in Sessions |-> EmptyFrame]
    /\ read_raised = [s \in Sessions |-> FALSE]
    /\ write_raised = [s \in Sessions |-> FALSE]
    /\ remote \in InitialTables
    /\ tmp_file = <<>>
    /\ clock = 1
    /\ entered = [s \in Sessions |-> NoWidgets]
    /\ edits = [s \in Sessions |-> 0]
    /\ submits = [s \in Sessions |-> 0]
    /\ succeeded = [s \in Sessions |-> 0]
    /\ went_back = [s \in Sessions |-> FALSE]

\* The deployment: both environment variables are set.
Init ==
    /\ InitSessions
    /\ env = Configured
    /\ speech = NoSpeech

Shows(s, r) ==
    /\ session_state' = [session_state EXCEPT ![s] = r.ss]
    /\ widgets' = [widgets EXCEPT ![s] = r.ws]
    /\ page' = [page EXCEPT ![s] = [buttons |-> r.buttons, alert |-> r.alert]]

\* The browser opens the page: the first run of the script.
Open(s) ==
    /\ ~Started(s)
    /\ \E outcome \in startup_outcomes(env) :
           IF outcome = "returns"
           THEN /\ Shows(s, Interaction(session_state[s], widgets[s], NoClick,
                                        new_uuid(s, clock), clock))
                /\ clock' = clock + 1
           ELSE /\ page' = [page EXCEPT ![s] = [buttons |-> {}, alert |-> "exception"]]
                /\ UNCHANGED <<session_state, widgets, clock>>
    /\ UNCHANGED <<pc, record, existing_df, updated_df, read_raised,
                   write_raised, remote, tmp_file, entered, edits, submits,
                   succeeded, went_back>>
    /\ UNCHANGED <<env, speech>>

\* The participant ticks or unticks the consent checkbox.
Tick(s) ==
    /\ Started(s) /\ pc[s] = "idle"
    /\ ConsentBox \in DOMAIN widgets[s]
    /\ Shows(s, Interaction(session_state[s],
                            [widgets[s] EXCEPT ![ConsentBox] = ~widgets[s][ConsentBox]],
                            NoClick, new_uuid(s, clock), clock))
    /\ UNCHANGED <<pc, record, existing_df, updated_df, read_raised,
                   write_raised, remote, tmp_file, clock, entered, edits,
                   submits, succeeded, went_back>>
    /\ UNCHANGED <<env, speech>>

\* The participant changes the value of one widget of the page.
Change(s, id, v) ==
    /\ Started(s) /\ pc[s] = "idle"
    /\ id \in DOMAIN widgets[s] /\ id # ConsentBox
    /\ v \in Inputs(id) /\ v # widgets[s][id]
    /\ Shows(s, Interaction(session_state[s], [widgets[s] EXCEPT ![id] = v],
                            NoClick, new_uuid(s, clock), clock))
    /\ entered' = [entered EXCEPT ![s] = Put(entered[s], id, v)]
    /\ edits' = [edits EXCEPT ![s] = edits[s] + 1]
    /\ UNCHANGED <<pc, record, existing_df, updated_df, read_raised,
                   write_raised, remote, tmp_file, clock, submits, succeeded,
                   went_back>>
    /\ UNCHANGED <<env, speech>>

\* An answer entered on any step.
Enter(s, id, v) ==
    /\ edits[s] < MaxEdits
    /\ Change(s, id, v)

\* An answer entered on the gender question or its "Please specify:" box.
EnterGender(s, id, v) ==
    /\ id \in {Q(2), SpecifyBox}
    /\ edits[s] < MaxGenderEdits
    /\ Change(s, id, v)

Press(s, b) ==
    /\ Started(s) /\ pc[s] = "idle"
    /\ b \in page[s].buttons
    /\ Shows(s, Interaction(session_state[s], widgets[s], b,
                            new_uuid(s, clock), clock))
    /\ UNCHANGED <<pc, record, existing_df, updated_df, read_raised,
                   write_raised, remote, tmp_file, clock, entered, edits,
                   submits, succeeded>>
    /\ UNCHANGED <<env, speech>>

\* The participant presses the Back button of the page.
Back(s) ==
    /\ \E b \in {"back_" \o steps[i] : i \in DOMAIN steps} : Press(s, b)
    /\ went_back' = [went_back EXCEPT ![s] = TRUE]

\* The participant presses the Continue button of the page.
Continue(s) ==
    /\ \E b \in {"Continue"} \cup {"next_" \o steps[i] : i \in DOMAIN steps} : Press(s, b)
    /\ UNCHANGED went_back

\* The participant presses Submit: the run builds the record and enters
\* the try block.  The run owns the session until the handler ends, so the
\* session takes no other interaction meanwhile.
Submit(s) ==
    /\ Started(s) /\ pc[s] = "idle"
    /\ "Submit" \in page[s].buttons
    /\ submits[s] < MaxSubmits
    /\ LET r == Script(session_state[s], widgets[s], "Submit",
                       new_uuid(s, clock), clock)
       IN  /\ r.submit
           /\ Shows(s, r)
           /\ record' = [record EXCEPT ![s] = build_record(r.ss, clock)]
    /\ pc' = [pc EXCEPT ![s] = "load"]
    /\ clock' = clock + 1
    /\ submits' = [submits EXCEPT ![s] = submits[s] + 1]
    /\ read_raised' = [read_raised EXCEPT ![s] = FALSE]
    /\ write_raised' = [write_raised EXCEPT ![s] = FALSE]
    /\ UNCHANGED <<existing_df, updated_df, remote, tmp_file, entered, edits,
                   succeeded, went_back>>
    /\ UNCHANGED <<env, speech>>

\* existing_df = load_existing_hf_csv(...); updated_df = pd.concat(...)
Load(s, raised) ==
    /\ pc[s] = "load"
    /\ raised \/ repo_reachable(env)
    /\ LET df == load_existing_hf_csv(remote, raised)
       IN  /\ existing_df' = [existing_df EXCEPT ![s] = df]
           /\ updated_df' = [updated_df EXCEPT ![s] = concat(df, record[s])]
    /\ read_raised' = [read_raised EXCEPT ![s] = raised]
    /\ pc' = [pc EXCEPT ![s] = "to_csv"]
    /\ UNCHANGED <<session_state, widgets, page, record, write_raised, remote,
                   tmp_file, clock, entered, edits, submits, succeeded,
                   went_back>>
    /\ UNCHANGED <<env, speech>>

LoadReturns(s) == Load(s, FALSE)

LoadRaises(s) == Load(s, TRUE)

\* df.to_csv(tmp_path, index=False)
WriteTmp(s) ==
    /\ pc[s] = "to_csv"
    /\ tmp_file' = to_csv(updated_df[s])
    /\ pc' = [pc EXCEPT ![s] = "upload"]
    /\ UNCHANGED <<session_state, widgets, page, record, existing_df,
                   updated_df, read_raised, write_raised, remote, clock,
                   entered, edits, submits, succeeded, went_back>>
    /\ UNCHANGED <<env, speech>>

\* hf_api.upload_file(...) returns; st.success
UploadReturns(s) ==
    /\ pc[s] = "upload"
    /\ repo_reachable(env)
    /\ remote' = upload_file(remote, tmp_file)
    /\ page' = [page EXCEPT ![s].alert = "success"]
    /\ pc' = [pc EXCEPT ![s] = "idle"]
    /\ succeeded' = [succeeded EXCEPT ![s] = succeeded[s] + 1]
    /\ write_raised' = [write_raised EXCEPT ![s] = FALSE]
    /\ UNCHANGED <<session_state, widgets, record, existing_df, updated_df,
                   read_raised, tmp_file, clock, entered, edits, submits,
                   went_back>>
    /\ UNCHANGED <<env, speech>>

\* hf_api.upload_file(...) raises; st.error
UploadRaises(s) ==
    /\ pc[s] = "upload"
    /\ page' = [page EXCEPT ![s].alert = "error"]
    /\ pc' = [pc EXCEPT ![s] = "idle"]
    /\ write_raised' = [write_raised EXCEPT ![s] = TRUE]
    /\ UNCHANGED <<session_state, widgets, record, existing_df, updated_df,
                   read_raised, remote, tmp_file, clock, entered, edits,
                   submits, succeeded, went_back>>
    /\ UNCHANGED <<env, speech>>

Step(s) ==
    \/ Open(s)
    \/ Tick(s)
    \/ \E id \in DOMAIN widgets[s] : \E v \in Inputs(id) : Enter(s, id, v)
    \/ Back(s)
    \/ Continue(s)
    \/ Submit(s)
    \/ LoadReturns(s)
    \/ LoadRaises(s)
    \/ WriteTmp(s)
    \/ UploadReturns(s)
    \/ UploadRaises(s)

\* One participant.
Next == Step(1)

Spec == Init /\ [][Next]_vars

\* Two participants whose sessions run in the same server process.
\* In the two-session specification each participant keeps the answers the
\* widgets show by default and walks the survey forward.
StepTwo(s) ==
    \/ Open(s)
    \/ Tick(s)
    \/ Continue(s)
    \/ (submits[s] < MaxRaceSubmits /\ Submit(s))
    \/ LoadReturns(s)
    \/ LoadRaises(s)
    \/ WriteTmp(s)
    \/ UploadReturns(s)
    \/ UploadRaises(s)

NextTwo == \E s \in Sessions : StepTwo(s)

SpecTwo == Init /\ [][NextTwo]_vars

\* One participant of a deployment in which either environment variable
\* may be missing; the participant keeps the answers the widgets show.
InitEnv ==
    /\ InitSessions
    /\ env \in Environments
    /\ speech = NoSpeech

StepEnv(s) ==
    \/ Open(s)
    \/ Tick(s)
    \/ Back(s)
    \/ Continue(s)
    \/ Submit(s)
    \/ LoadReturns(s)
    \/ LoadRaises(s)
    \/ WriteTmp(s)
    \/ UploadReturns(s)
    \/ UploadRaises(s)

NextEnv == StepEnv(1)

SpecEnv == InitEnv /\ [][NextEnv]_vars

\* One participant who changes only the answers to the gender question.
StepGender(s) ==
    \/ Open(s)
    \/ Tick(s)
    \/ \E id \in DOMAIN widgets[s] : \E v \in Inputs(id) : EnterGender(s, id, v)
    \/ Back(s)
    \/ Continue(s)
    \/ Submit(s)
    \/ LoadReturns(s)
    \/ LoadRaises(s)
    \/ WriteTmp(s)
    \/ UploadReturns(s)
    \/ UploadRaises(s)

NextGender == StepGender(1)

SpecGender == Init /\ [][NextGender]_vars

\* A call of create_speech_html with any script and any tone.
InitTone ==
    /\ InitSessions
    /\ env = Configured
    /\ speech \in {[words |-> ws, text |-> Join(ws), tone |-> tn,
                     processed |-> <<>>, done |-> FALSE] :
                        ws \in Scripts, tn \in Tones}

\* processed_text = preprocess_text_for_tone(text, tone)
create_speech_html ==
    /\ ~speech.done
    /\ speech' = [speech EXCEPT
                     !.processed = preprocess_text_for_tone(speech.text, speech.tone),
                     !.done = TRUE]
    /\ UNCHANGED <<session_state, widgets, page, pc, record, existing_df,
                   updated_df, read_raised, write_raised, remote, tmp_file,
                   clock, entered, edits, submits, succeeded, went_back, env>>

NextTone == create_speech_html

SpecTone == InitTone /\ [][NextTone]_vars

----------------------------------------------------------------------------
(* Properties *)

StepOf(s) == session_state[s]["step"]

Idle(s) == Started(s) /\ pc[s] = "idle"

\* C1: current_step is always one of the seven steps, and every change of
\* current_step moves to the step right after or right before the previous
\* one in the order of `steps`.
C1_StepsAdjacent ==
    /\ [](\A s \in Sessions : Started(s) => StepOf(s) \in StepSet)
    /\ [][\A s \in Sessions :
            (Started(s) /\ session_state'[s]["step"] # StepOf(s)) =>
                \/ index(session_state'[s]["step"]) = index(StepOf(s)) + 1
                \/ index(session_state'[s]["step"]) = index(StepOf(s)) - 1]_vars

\* A participant who went forward to the last step after having gone back.
C1_Witness == Started(1) /\ went_back[1] /\ StepOf(1) = "review"

\* C2: pressing Continue on consent with the checkbox unticked leaves
\* current_step at consent and every session field as it was, and shows a
\* warning; current_step leaves consent only with the checkbox ticked, and
\* then for demographics.
C2_ConsentGate ==
    [][\A s \in Sessions :
        /\ (Continue(s) /\ StepOf(s) = "consent" /\ ~checkbox(widgets[s], ConsentBox)) =>
               /\ session_state'[s] = session_state[s]
               /\ page'[s].alert = "warning"
        /\ (Started(s) /\ StepOf(s) = "consent" /\ session_state'[s]["step"] # "consent") =>
               /\ checkbox(widgets[s], ConsentBox)
               /\ session_state'[s]["step"] = "demographics"]_vars

\* Continue was pressed on consent with the checkbox unticked.
C2_Witness ==
    /\ Started(1) /\ StepOf(1) = "consent"
    /\ page[1].alert = "warning"
    /\ ~checkbox(widgets[1], ConsentBox)

\* The answer session state holds for a widget.
Stored(s, id) == build_record(session_state[s], 0)[FlatKeyOf(id)]

\* C3: on every step other than consent the page offers a Back button that
\* leads to the step right before it; in particular review offers Back to
\* open.
C3_BackEverywhere ==
    \A s \in Sessions :
        (Idle(s) /\ StepOf(s) # "consent") =>
            ("back_" \o steps[index(StepOf(s)) - 1]) \in page[s].buttons

\* C4: every answer the participant entered is still the stored answer,
\* whatever navigation and re-rendering followed.
C4_AnswersPersist ==
    \A s \in Sessions :
        Idle(s) => \A id \in DOMAIN entered[s] : Stored(s, id) = entered[s][id]

\* The row a record becomes in the CSV file.
RowOf(rec) == to_csv(<<rec>>)[1]

\* The rows of the remote dataset that carry the participant id of s.
RowsOf(s) ==
    {i \in DOMAIN remote :
        remote[i]["participant_id"] = session_state[s]["participant_id"]}

Reported(s, alert) == Idle(s) /\ submits[s] > 0 /\ page[s].alert = alert

\* C5: after a submit whose read and write both succeeded, the remote
\* table is the fetched table, row for row and in the same order, followed
\* by one more row, the session's Output Record.
C5_AppendsLast ==
    \A s \in Sessions :
        (Reported(s, "success") /\ ~read_raised[s]) =>
            /\ Len(remote) = Len(existing_df[s]) + 1
            /\ \A i \in DOMAIN existing_df[s] : read_csv(remote)[i] = existing_df[s][i]
            /\ remote[Len(remote)] = RowOf(record[s])

\* A successful submit that fetched a table with rows in it.
C5_Witness ==
    /\ Reported(1, "success") /\ ~read_raised[1]
    /\ Len(existing_df[1]) > 0

\* C6: every submit that reports success leaves in the remote dataset all
\* the rows it held before, in place, plus one new row.
C6_AppendOnly ==
    [][\A s \in Sessions :
        (pc[s] = "upload" /\ pc'[s] = "idle" /\ page'[s].alert = "success") =>
            /\ Len(remote') = Len(remote) + 1
            /\ \A i \in DOMAIN remote : remote'[i] = remote[i]]_vars

\* C7: when the read raises, the fetched table is empty, the handler goes on
\* to the write without reporting a failure, and when the write returns
\* success is reported and the remote dataset is one row, the participant's.
C7_ReadFailureFallsBack ==
    \A s \in Sessions :
        (Started(s) /\ read_raised[s]) =>
            /\ existing_df[s] = EmptyFrame
            /\ pc[s] \in {"to_csv", "upload", "idle"}
            /\ pc[s] # "idle" => page[s].alert # "error"
            /\ (pc[s] = "idle" /\ ~write_raised[s]) =>
                   /\ page[s].alert = "success"
                   /\ Len(remote) = 1
                   /\ remote[1] = RowOf(record[s])
                   /\ remote[1]["participant_id"] = session_state[s]["participant_id"]

\* A submit whose read raised and whose write returned.
C7_Witness ==
    /\ Reported(1, "success") /\ read_raised[1]
    /\ Len(remote) = 1 /\ succeeded[1] = 1 /\ submits[1] = 1

\* C8: when the write raises a failure is reported, current_step is still
\* review, the answers, participant_id and start_ts are what they were when
\* Submit was pressed, nothing is written and nothing is retried; a later
\* submit whose write returns leaves exactly one row of the session.
C8_WriteFailureKeepsState ==
    \A s \in Sessions :
        (Started(s) /\ submits[s] > 0) =>
            /\ StepOf(s) = "review"
            /\ build_record(session_state[s], record[s]["submit_ts_utc"]) = record[s]
            /\ (pc[s] = "idle" /\ write_raised[s]) => page[s].alert = "error"
            /\ succeeded[s] = 0 => RowsOf(s) = {}
            /\ succeeded[s] = 1 => Cardinality(RowsOf(s)) = 1

\* A write that raised, followed by a second press whose write returned.
C8_Witness ==
    /\ Reported(1, "success")
    /\ submits[1] = 2 /\ succeeded[1] = 1

\* The widgets whose answers C10 names.
C10Widgets ==
    {Q(1), "emp_anxiety", "neu_anxiety"}
        \cup {Qsub(7, i) : i \in GadItems} \cup {Qsub(9, i) : i \in PanasItems}

\* C10: after a session walked the steps in order and submitted once with
\* success, the remote dataset holds exactly one row of the session, its
\* last one; the row carries the session's participant_id and start_ts, and
\* under the flat key of each answer the value last entered for it.
C10_RowMatchesAnswers ==
    \A s \in Sessions :
        (Reported(s, "success") /\ submits[s] = 1 /\ ~went_back[s]) =>
            LET row == remote[Len(remote)]
            IN  /\ RowsOf(s) = {Len(remote)}
                /\ ~read_raised[s] => Len(remote) = Len(existing_df[s]) + 1
                /\ row["participant_id"] = session_state[s]["participant_id"]
                /\ row["start_ts_utc"] = session_state[s]["start_ts"]
                /\ \A id \in DOMAIN entered[s] \cap C10Widgets :
                       row[FlatKeyOf(id)] = entered[s][id]

\* One successful submit after the two state-anxiety answers were entered.
C10_Witness ==
    /\ Reported(1, "success") /\ submits[1] = 1 /\ ~went_back[1]
    /\ "emp_anxiety" \in DOMAIN entered[1] /\ entered[1]["emp_anxiety"] = "2"
    /\ "neu_anxiety" \in DOMAIN entered[1] /\ entered[1]["neu_anxiety"] = "4"

\* Whether a table holds a row of session t.
HasRowOf(df, t) ==
    \E i \in DOMAIN df : df[i]["participant_id"] = session_state[t]["participant_id"]

\* Both sessions were told their submit succeeded, and neither had
\* fetched the other's row.
BothSucceededUnseen(s, t) ==
    /\ s # t
    /\ Reported(s, "success") /\ Reported(t, "success")
    /\ ~HasRowOf(existing_df[s], t)
    /\ ~HasRowOf(existing_df[t], s)

\* C9: when two sessions both report success and neither fetched the
\* other's row, the remote dataset holds the row of only one of them: the
\* later write replaced the earlier one and nothing reported it.
C9_LostUpdate ==
    \A s, t \in Sessions :
        BothSucceededUnseen(s, t) => (RowsOf(s) = {}) # (RowsOf(t) = {})

\* Both reads returned before either write, both writes returned, and the
\* row of session 1 is gone.
C9_Witness ==
    /\ BothSucceededUnseen(1, 2)
    /\ ~read_raised[1] /\ ~read_raised[2]
    /\ RowsOf(1) = {} /\ RowsOf(2) # {}

\* C11: the handler reads or writes the remote dataset only after a Submit
\* pressed while current_step is review, nothing else changes the remote
\* dataset, and from the press to the end of the handler, whether the write
\* returns or raises, current_step stays review.
C11_SubmitOnlyOnReview ==
    [][\A s \in Sessions :
        /\ (pc[s] = "idle" /\ pc'[s] # "idle") =>
               /\ Submit(s)
               /\ StepOf(s) = "review"
        /\ (existing_df'[s] # existing_df[s]) => pc[s] = "load"
        /\ (pc[s] # "idle" \/ pc'[s] # "idle") =>
               /\ session_state'[s]["step"] = "review"
               /\ StepOf(s) = "review"
        /\ (remote' # remote \/ tmp_file' # tmp_file) =>
               \E t \in Sessions : pc[t] \in {"to_csv", "upload"} /\ StepOf(t) = "review"]_vars

\* A submit that succeeded and a second one whose write raised.
C11_Witness ==
    /\ Reported(1, "error") /\ StepOf(1) = "review"
    /\ submits[1] = 2 /\ succeeded[1] = 1

\* C12: when HF_TOKEN or HF_DATASET_REPO is missing, an error is shown and
\* the participant can do nothing more: no step is rendered (no widget, no
\* button), current_step never leaves consent, and the remote dataset
\* stays as it was.
C12_ConfigErrorBlocks ==
    config_errors(env) # {} =>
        /\ remote \in InitialTables
        /\ \A s \in Sessions :
               /\ page[s].buttons = {}
               /\ widgets[s] = NoWidgets
               /\ Started(s) => StepOf(s) = "consent"

\* C13: step_changed is one-shot.  Between interactions it is cleared, and
\* every button press that changes current_step, the Continue of consent
\* included, leaves it set for the run that follows, whose scroll_to_top
\* clears it.
C13_FlagOneShot ==
    \A s \in Sessions :
        Idle(s) =>
            /\ ~Get(session_state[s], "step_changed", FALSE)
            /\ \A b \in page[s].buttons :
                   LET r == Script(session_state[s], widgets[s], b, 0, 0)
                   IN  r.ss["step"] # StepOf(s) =>
                           /\ Get(r.ss, "step_changed", FALSE)
                           /\ ~Get(scroll_to_top(r.ss), "step_changed", FALSE)

\* C14: on a session that has run once, init_state changes nothing,
\* whatever identifier and time the run would draw, so no stored value is
\* replaced by its default; and no run or interaction changes
\* participant_id or start_ts.
C14_InitStateIdempotent ==
    /\ [](\A s \in Sessions :
            Started(s) =>
                \A now \in {0, clock, clock + 1} :
                    init_state(session_state[s], new_uuid(s, now), now) = session_state[s])
    /\ [][\A s \in Sessions :
            Started(s) =>
                /\ session_state'[s]["participant_id"] = session_state[s]["participant_id"]
                /\ session_state'[s]["start_ts"] = session_state[s]["start_ts"]]_vars

\* A session that entered answers, went back and forward and submitted:
\* many runs after the first, at a later time.
C14_Witness ==
    /\ Idle(1) /\ edits[1] = MaxEdits /\ went_back[1] /\ submits[1] > 0
    /\ clock > session_state[1]["start_ts"] + 1
    /\ session_state[1]["participant_id"] = new_uuid(1, session_state[1]["start_ts"])

\* C15: a run of the script while current_step is s leaves every answer
\* field that s does not own as it was, whatever button is pressed; an
\* interaction changes only answer fields owned by the step it starts on or
\* the step it ends on; on review, Submit included, no answer field changes.
C15_OnlyOwnerWrites ==
    /\ [](\A s \in Sessions :
            Idle(s) =>
                \A b \in page[s].buttons \cup {NoClick} :
                    \A k \in AnswerFields \ owned_fields(StepOf(s)) :
                        Script(session_state[s], widgets[s], b, 0, 0).ss[k]
                            = session_state[s][k])
    /\ [][\A s \in Sessions :
            Started(s) =>
                \A k \in AnswerFields :
                    session_state'[s][k] # session_state[s][k] =>
                        k \in owned_fields(StepOf(s))
                                \cup owned_fields(session_state'[s]["step"])]_vars

\* The answer entered on the neutral session is still stored after the
\* open questions and review were rendered and Submit was pressed.
C15_Witness ==
    /\ Idle(1) /\ StepOf(1) = "review" /\ submits[1] > 0
    /\ "neu_anxiety" \in DOMAIN entered[1]
    /\ session_state[1]["neu_state_anxiety"] = "4"

\* The widgets a step can render: those of a run with the Other gender
\* selected, which shows the "Please specify:" box as well.
StepWidgets(step) ==
    DOMAIN Script(Put(defaults(0, 0), "step", step),
                  [w \in {Q(2)} |-> GenderOther], NoClick, 0, 0).ws

\* Whether the participant changed a widget of the step.
Interacted(s, step) == DOMAIN entered[s] \cap StepWidgets(step) # {}

\* C16: the answer fields of a step the participant has not interacted
\* with hold their initial values, None or empty.
C16_UntouchedFieldsDefault ==
    \A s \in Sessions :
        Idle(s) =>
            \A step \in StepSet :
                ~Interacted(s, step) =>
                    \A k \in owned_fields(step) :
                        session_state[s][k] = defaults(0, 0)[k]

\* C17: in every reachable session state, fields still None or empty
\* included, the handler can build the record without a missing subscript;
\* the record has the fixed set of flat keys; two builds from the same
\* state agree on every key but submit_ts_utc; and the Submit run that
\* builds the record leaves session state as it was.
C17_FlatteningTotal ==
    /\ [](\A s \in Sessions :
            Started(s) =>
                LET a == build_record(session_state[s], clock)
                    b == build_record(session_state[s], clock + 1)
                IN  /\ Flattens(session_state[s])
                    /\ DOMAIN a = RecordKeys /\ DOMAIN b = RecordKeys
                    /\ \A k \in RecordKeys \ {"submit_ts_utc"} : a[k] = b[k])
    /\ [][\A s \in Sessions :
            Submit(s) =>
                /\ session_state'[s] = session_state[s]
                /\ DOMAIN record'[s] = RecordKeys]_vars

\* A second press on the same answers: the record just built has None and
\* empty fields and differs from the session's stored row in submit_ts_utc
\* only.
C17_Witness ==
    /\ Started(1) /\ pc[1] = "load" /\ submits[1] = 2
    /\ record[1]["emp_post_q1"] = None /\ record[1]["open_emp"] = ""
    /\ \E i \in RowsOf(1) :
           /\ remote[i]["submit_ts_utc"] # record[1]["submit_ts_utc"]
           /\ \A k \in RecordKeys \ {"submit_ts_utc"} : remote[i][k] = RowOf(record[1])[k]

\* What the claim says a neutral reading makes of each piece of a script.
NeutralImage(w) ==
    CASE w = Im -> I_am
      [] w = youre -> you_are
      [] w = its -> it_is
      [] w = cant -> cannot
      [] w = glad -> pleased
      [] w = wonderful -> acceptable
      [] OTHER -> w

\* The number of places of a text at which a pattern occurs.
Count(text, pat) ==
    Cardinality({i \in 1..Len(text) :
        i + Len(pat) - 1 <= Len(text) /\ SubSeq(text, i, i + Len(pat) - 1) = pat})

\* C18: the result of preprocess_text_for_tone depends on (text, tone)
\* only.  With tone neutral every I'm, you're, it's, can't, glad and
\* wonderful of the text is replaced by I am, you are, it is, cannot,
\* pleased and acceptable and the rest is kept.  With tone empathetic every
\* I'm stays and every '.' becomes '... ', and a text with no ',' and no
\* "You're" or "Take a slow breath" changes in nothing else.  With any
\* other tone the text is returned as it is.
C18_ToneRewrites ==
    speech.done =>
        /\ speech.tone = "neutral" =>
               speech.processed
                   = Join([i \in DOMAIN speech.words |-> NeutralImage(speech.words[i])])
        /\ speech.tone = "empathetic" =>
               /\ Count(speech.processed, Im) = Count(speech.text, Im)
               /\ Count(speech.processed, Pause) = Count(speech.text, Period)
               /\ Count(speech.processed, Period) = 3 * Count(speech.text, Period)
               /\ (\A i \in DOMAIN speech.words :
                       speech.words[i] \notin {Comma, Youre, Take_a_slow_breath}) =>
                      speech.processed
                          = Join([i \in DOMAIN speech.words |->
                                     IF speech.words[i] = Period THEN Pause
                                     ELSE speech.words[i]])
        /\ speech.tone \notin {"neutral", "empathetic"} =>
               speech.processed = speech.text

\* A neutral reading of a script in which the same word occurs twice.
C18_Witness ==
    /\ speech.done /\ speech.tone = "neutral"
    /\ speech.words = <<glad, glad>>
    /\ speech.processed = pleased \o pleased

\* C19: whatever the interleaving of two sessions' submits, the file a
\* session uploads holds the table that session built, its fetched rows
\* followed by its own row, never the table another session wrote to
\* responses_tmp.csv.
C19_UploadsOwnTable ==
    [][\A s \in Sessions :
        (pc[s] = "upload" /\ pc'[s] = "idle" /\ page'[s].alert = "success") =>
            remote' = to_csv(concat(existing_df[s], record[s]))]_vars

\* The number of rows of a table that carry the participant id of s.
CountRowsOf(df, s) ==
    Cardinality({i \in DOMAIN df :
        df[i]["participant_id"] = session_state[s]["participant_id"]})

\* C20: review offers Submit also after a successful submission; every
\* press whose read and write both return adds one more row of the session
\* to the remote dataset, so n such presses add n rows; and all rows of a
\* session carry its participant_id and its start_ts.
C20_EveryPressAppends ==
    /\ [](\A s \in Sessions :
            /\ (Idle(s) /\ StepOf(s) = "review") => "Submit" \in page[s].buttons
            /\ Started(s) =>
                   \A i \in RowsOf(s) :
                       remote[i]["start_ts_utc"] = session_state[s]["start_ts"])
    /\ [][\A s \in Sessions :
            (/\ pc[s] = "upload" /\ pc'[s] = "idle"
             /\ page'[s].alert = "success" /\ ~read_raised[s]) =>
                CountRowsOf(remote', s) = CountRowsOf(remote, s) + 1]_vars

\* Two presses, both reported successful, and two rows of the session.
C20_Witness ==
    /\ Reported(1, "success") /\ ~read_raised[1]
    /\ submits[1] = 2 /\ succeeded[1] = 2
    /\ Cardinality(RowsOf(1)) = 2
    /\ "Submit" \in page[1].buttons

\* C21: whenever current_step is not consent the consented flag is true;
\* the flag becomes true only by Continue pressed on consent with the
\* checkbox ticked, and once true it stays true, also after Back to
\* consent.
C21_ConsentedOnceLeft ==
    /\ [](\A s \in Sessions :
            (Started(s) /\ StepOf(s) # "consent") => session_state[s]["consented"] = TRUE)
    /\ [][\A s \in Sessions :
            Started(s) =>
                /\ session_state[s]["consented"] => session_state'[s]["consented"]
                /\ (~session_state[s]["consented"] /\ session_state'[s]["consented"]) =>
                       /\ Continue(s)
                       /\ StepOf(s) = "consent"
                       /\ checkbox(widgets[s], ConsentBox)]_vars

\* The participant went back to consent: the step is consent again and
\* consented is still true.
C21_Witness ==
    /\ Idle(1) /\ went_back[1] /\ StepOf(1) = "consent"
    /\ session_state[1]["consented"] = TRUE

\* The flat keys of the two post-session groups.
PostKeys ==
    {FlatKey("emp_post", i) : i \in 1..7} \cup {FlatKey("neu_post", i) : i \in 1..7}

\* C22: the emp_post and neu_post groups of session state always hold
\* None for q1..q7; every Output Record the handler builds holds None
\* under emp_post_q1..emp_post_q7 and neu_post_q1..neu_post_q7, and every
\* row of the remote file has these fields empty.
C22_PostGroupsStayNone ==
    /\ \A s \in Sessions :
           Started(s) =>
               /\ session_state[s]["emp_post"] = [i \in 1..7 |-> None]
               /\ session_state[s]["neu_post"] = [i \in 1..7 |-> None]
               /\ submits[s] > 0 => \A k \in PostKeys : record[s][k] = None
    /\ \A i \in DOMAIN remote : \A k \in PostKeys : remote[i][k] = ""

\* A participant entered answers on the two voice sessions and submitted
\* with success.
C22_Witness ==
    /\ Reported(1, "success")
    /\ {"emp_anxiety", "neu_anxiety"} \subseteq DOMAIN entered[1]
    /\ \E i \in RowsOf(1) : remote[i]["emp_post_q7"] = ""
    /\ record[1]["neu_post_q1"] = None

\* C23: gender_other changes only in an interaction that renders
\* demographics with the Other gender selected; an interaction after which
\* the selected gender is not Other, the choice of another gender
\* included, leaves gender_other as it was.
C23_GenderOtherKept ==
    [][\A s \in Sessions :
        Started(s) =>
            /\ session_state'[s]["gender_other"] # session_state[s]["gender_other"] =>
                   /\ "demographics" \in {StepOf(s), session_state'[s]["step"]}
                   /\ session_state'[s]["gender"] = GenderOther
            /\ (/\ session_state[s]["gender"] = GenderOther
                /\ session_state'[s]["gender"] # GenderOther) =>
                   session_state'[s]["gender_other"] = session_state[s]["gender_other"]]_vars

\* The participant chose Other, typed a text, chose Female, went on to
\* review and submitted: the Output Record has gender Female and the text.
C23_Witness ==
    /\ Reported(1, "success") /\ ~went_back[1] /\ edits[1] = 3
    /\ record[1]["gender"] = "Female"
    /\ record[1]["gender_other"] = "they"
    /\ \E i \in RowsOf(1) :
           remote[i]["gender"] = "Female" /\ remote[i]["gender_other"] = "they"

====
